---- MODULE Spec2Model ----
(***************************************************************************)
(* Model of the build-and-aggregate pipeline of mmk/data/factory.py:       *)
(* make_root_db = make_db_for_each_file (a process pool running            *)
(* file_to_db once per source) followed by aggregate_dbs (collect_infos,   *)
(* collect_metadatas, ds_definitions_from_infos,                           *)
(* create_datasets_from_defs, make_integration_args, integrate, optional   *)
(* os.remove of the per-source stores, final info/metadata tables).        *)
(*                                                                         *)
(* Strings that the code splits and joins (paths) are sequences of tokens: *)
(* the separators "/" and "." and atoms that contain no separator.         *)
(*                                                                         *)
(* Specifications: Spec is make_root_db; SpecPool is make_db_for_each_file *)
(* alone on a longer walk (the pool cuts it into chunks); SpecCall is      *)
(* file_to_db called directly, modes "w" and "r+"; SpecAnyOrder is the     *)
(* pipeline with the integrate calls made in any order; SpecTwice is       *)
(* make_root_db run a second time on the same sources; SpecReload is       *)
(* aggregate_dbs from make_integration_args on, over an aggregate store    *)
(* whose layout tables may have been changed since they were written.      *)
(***************************************************************************)
EXTENDS Integers, Sequences, FiniteSets, TLC

\* ------------------------------------------------------------------ bounds
MaxSources == 3      \* longest source list given to make_root_db
MaxLen == 2          \* largest leading size of a feature of one source
MaxCores == 2        \* largest worker count n_cores
MaxPoolSources == 5  \* longest source list given to make_db_for_each_file alone
MaxCalls == 2        \* most calls of file_to_db made on one source directly

\* ------------------------------------------------- strings as token lists
ButLast(s) == SubSeq(s, 1, Len(s) - 1)

Last(s) == s[Len(s)]

\* str.split(sep): "".split(sep) = [""], "a/b".split("/") = ["a", "b"]
RECURSIVE Split(_, _)
Split(s, sep) ==
    IF s = <<>> THEN << <<>> >>
    ELSE LET rest == Split(Tail(s), sep) IN
         IF Head(s) = sep THEN << <<>> >> \o rest
         ELSE << <<Head(s)>> \o Head(rest) >> \o Tail(rest)

\* sep.join(parts)
RECURSIVE Join(_, _)
Join(parts, sep) ==
    IF parts = <<>> THEN <<>>
    ELSE IF Len(parts) = 1 THEN parts[1]
    ELSE parts[1] \o <<sep>> \o Join(Tail(parts), sep)

\* split_path(path): (prefix, file_name)
split_path(path) ==
    LET parts == Split(path, "/") IN
    <<Join(ButLast(parts), "/"), Last(parts)>>

\* file_to_db: tmp_db = ".".join(abs_path.split(".")[:-1] + ["h5"])
tmp_db_of(abs_path) ==
    Join(ButLast(Split(abs_path, ".")) \o << <<"h5">> >>, ".")

\* ds_definitions_from_infos: the store path rebuilt from an info row
\*   "/".join([directory, name]), then ".".join(path.split(".")[:-1]) + ".h5"
path_of_info(directory, name) ==
    LET path == Join(<<directory, name>>, "/") IN
    Join(ButLast(Split(path, ".")), ".") \o <<".", "h5">>

\* The process's working directory: a relative path names the file below it.
Cwd == <<"/", "w">>

\* The file a path names when the process opens it.
Resolve(p) ==
    IF p # <<>> /\ Head(p) = "/" THEN p ELSE Cwd \o <<"/">> \o p

\* ------------------------------------------------------------------ inputs
\* Source files a walker can yield: two absolute paths, one relative path
\* with a directory, one bare file name.
SourcePaths ==
    { <<"/", "d", "/", "a", ".", "wav">>,
      <<"/", "d", "/", "b", ".", "wav">>,
      <<"e", "/", "a", ".", "wav">>,
      <<"c", ".", "wav">> }

Features == {"f", "g"}

\* h5py lists the members of a group in name order.
FeatureOrder == <<"f", "g">>

\* One feature of one source as its info row describes it; has = FALSE is a
\* feature the source does not have (NaN in the concatenated info frame).
NoFeat == [has |-> FALSE, len |-> 0, dims |-> <<>>, dtype |-> "NaN"]

Dense(len, dims, dtype) == [has |-> TRUE, len |-> len, dims |-> dims, dtype |-> dtype]

\* What extract_func can return for one source: it raises, or it returns
\* dense arrays: "f" of any leading size with "g", "f" with other trailing
\* dimensions with "g", or "f" alone.
ExtractResults ==
    { [raises |-> TRUE, feats |-> [x \in Features |-> NoFeat]] }
    \cup
    { [raises |-> FALSE, feats |-> [x \in Features |-> IF x = "f" THEN fg[1] ELSE fg[2]]] :
        fg \in { <<Dense(l, <<8>>, "float32"), Dense(MaxLen, <<>>, "int64")>> : l \in 0..MaxLen }
               \cup { <<Dense(1, <<16>>, "float32"), Dense(MaxLen, <<>>, "int64")>>,
                      <<Dense(MaxLen, <<8>>, "float32"), NoFeat>> } }

Range(q) == { q[i] : i \in 1..Len(q) }

\* Source lists: distinct files, in any order, at most n of them.
RECURSIVE SeqsNoRepeat(_, _)
SeqsNoRepeat(S, n) ==
    IF n = 0 THEN { <<>> }
    ELSE LET shorter == SeqsNoRepeat(S, n - 1) IN
         shorter \cup
         UNION { { Append(q, x) : x \in S \ Range(q) } :
                 q \in { r \in shorter : Len(r) = n - 1 } }

FileLists == SeqsNoRepeat(SourcePaths, MaxSources)

\* The files of a longer walk of one directory: /p/1.wav, /p/2.wav, ...
PoolFile(i) == <<"/", "p", "/", ToString(i), ".", "wav">>

PoolFileLists == { [i \in 1..n |-> PoolFile(i)] : n \in 0..MaxPoolSources }

\* Every place a per-source store can be written to or looked for.
StorePaths ==
    { Resolve(tmp_db_of(p)) : p \in SourcePaths }
    \cup { Resolve(path_of_info(split_path(p)[1], split_path(p)[2])) : p \in SourcePaths }
    \cup { Resolve(tmp_db_of(PoolFile(i))) : i \in 1..MaxPoolSources }

NoStore ==
    [present |-> FALSE, owner |-> 0, directory |-> <<>>, name |-> <<>>,
     feats |-> [x \in Features |-> NoFeat], metadata |-> <<>>]

\* Row r of feature x as extracted from the source at position i of the list.
Row(i, x, r) == <<i, x, r>>

Uninit == <<0, "", 0>>

\* The dataset of feature x in a per-source store: src[key][()]
DataOf(store, x) == [r \in 1..store.feats[x].len |-> Row(store.owner, x, r)]

\* --------------------------------------------- Metadata (layout index)
RECURSIVE SumTo(_, _)
SumTo(durations, n) == IF n = 0 THEN 0 ELSE SumTo(durations, n - 1) + durations[n]

\* Metadata.from_duration: cumulative offsets, in the order given
from_duration(durations) ==
    [i \in 1..Len(durations) |->
        [start |-> SumTo(durations, i - 1), stop |-> SumTo(durations, i),
         duration |-> durations[i]]]

\* Metadata.last_stop: the stop of the last segment
last_stop(md) == md[Len(md)].stop

\* Metadata.slices(time_axis=0): one [start, stop) row range per segment, in
\* segment order
slices(md) == [i \in 1..Len(md) |-> <<md[i].start, md[i].stop>>]

\* ------------------------------------------------------------------- state
VARIABLES
    files,        \* the sources, in the order the walker yields them
    n_cores,      \* the pool's size, 0 when there is no pool
    remove_sources, \* aggregate_dbs' argument, bound when it is called
    pc,           \* where make_root_db is
    err,          \* the exception that ended the run, "" when none
    task,         \* per source: "pending", "done", "failed" or "skipped"
    results,      \* the pool's result list, filled by position
    overtook,     \* history: a task finished before one handed out earlier
    tmp_dbs,      \* what make_db_for_each_file returned
    fs,           \* the per-source stores, by resolved path
    infos,        \* collect_infos' frame, one row per store
    metadata,     \* collect_metadatas' frame
    definitions,  \* ds_definitions_from_infos' result, by feature
    target,       \* the aggregate store
    args,         \* make_integration_args' list
    k,            \* position of the running loop (integrate, os.remove)
    rvs,          \* history: what extract_func did for each source
    call,         \* the last direct call of file_to_db: arguments and outcome
    opens         \* history: per store path, the steps that opened or removed it

vars == <<files, n_cores, remove_sources, pc, err, task, results, overtook,
          tmp_dbs, fs, infos, metadata, definitions, target, args, k, rvs, call,
          opens>>

N == Len(files)

\* extract_func has not been called for the source yet.
NotRun == [raises |-> FALSE, feats |-> [x \in Features |-> NoFeat]]

NoDataset == [created |-> FALSE, shape |-> <<>>, dtype |-> "", rows |-> <<>>]

\* No direct call of file_to_db was made.
NoCall ==
    [count |-> 0, mode |-> "", rv |-> [raises |-> FALSE, items |-> <<>>],
     prior |-> NoStore, err |-> ""]

\* No store file was opened yet.
NoOpens == [p \in StorePaths |-> <<>>]

\* The history once step has opened (or removed) the file path names.
Opened(log, path, step) ==
    IF Resolve(path) \in StorePaths
    THEN [log EXCEPT ![Resolve(path)] = Append(@, step)]
    ELSE log

\* The history once step has opened the first n files of dbs, one by one.
RECURSIVE OpenedEach(_, _, _, _)
OpenedEach(log, dbs, n, step) ==
    IF n = 0 THEN log
    ELSE Opened(OpenedEach(log, dbs, n - 1, step), dbs[n], step)

\* The aggregate store, with its history fields: before, the datasets
\* the file held when it was last opened with mode "w"; reads, the nodes
\* read from it since; writes, how many scatter writes each entry of args
\* has had; open, the writable handles open on the file; peak, the most
\* that were open at once.
NoTarget ==
    [exists |-> FALSE,
     ds |-> [x \in Features |-> NoDataset],
     layouts |-> [x \in Features |-> <<>>],
     has_layout |-> {},
     info |-> <<>>, metadata |-> <<>>, finished |-> FALSE,
     before |-> [x \in Features |-> NoDataset],
     reads |-> {}, writes |-> <<>>, open |-> 0, peak |-> 0]

\* The store t after the events ev, in order: "open" is a handle opened
\* with mode "w" or "r+" (h5py.File, or to_hdf for the time of its write),
\* "close" is one closed.
RECURSIVE Handles(_, _)
Handles(t, ev) ==
    IF ev = <<>> THEN t
    ELSE LET o == t.open + (IF Head(ev) = "open" THEN 1 ELSE -1) IN
         Handles([t EXCEPT !.open = o, !.peak = IF o > @ THEN o ELSE @], Tail(ev))

Init ==
    /\ files \in FileLists
    /\ n_cores \in 1..MaxCores
    /\ remove_sources = FALSE
    /\ pc = "build"
    /\ err = ""
    /\ task = [i \in 1..Len(files) |-> "pending"]
    /\ results = [i \in 1..Len(files) |-> <<>>]
    /\ overtook = FALSE
    /\ tmp_dbs = <<>>
    /\ fs = [p \in StorePaths |-> NoStore]
    /\ infos = <<>>
    /\ metadata = <<>>
    /\ definitions = [x \in {} |-> 0]
    /\ target = NoTarget
    /\ args = <<>>
    /\ k = 0
    /\ rvs = [i \in 1..Len(files) |-> NotRun]
    /\ call = NoCall
    /\ opens = NoOpens

\* make_root_db is at stage s and no exception has ended it.
At(s) == pc = s /\ err = ""

\* The run ends with an exception: nothing after the raising line runs, and
\* pc stays at the stage that raised.
Raise(e) == err' = e /\ UNCHANGED pc

\* ---------------------------------------------------------------- file_to_db
\* One entry of rv.items(): name -> (attrs, data), data a dense array
\* (kind "array", val its dtype and shape) or a DataFrame (kind "table", val
\* its rows).
Item(name, kind, val) == [name |-> name, kind |-> kind, val |-> val]

\* What the pipeline's extract_func returns, as the ordered items of rv: the
\* dense features, then the "metadata" table of the file's one segment.
ItemsOf(rv) ==
    LET names == SelectSeq(FeatureOrder, LAMBDA x : rv.feats[x].has) IN
    [j \in 1..Len(names) |-> Item(names[j], "array", rv.feats[names[j]])]
    \o << Item("metadata", "table", from_duration(<<rv.feats["f"].len>>)) >>

\* f = h5py.File(tmp_db, mode): "w" creates the file or empties it, "r+"
\* wants it to exist.
OpenStore(store, mode) ==
    IF mode = "w" THEN [store |-> [NoStore EXCEPT !.present = TRUE], err |-> ""]
    ELSE IF store.present THEN [store |-> store, err |-> ""]
    ELSE [store |-> store, err |-> "OSError"]

\* One turn of the loop over rv.items().  f.create_dataset raises when the
\* name is in the file already and when the array's dtype has no HDF5
\* equivalent (object); DataFrame.to_hdf(tmp_db, name, "r+") puts the table
\* in place of whatever node has the name.
PutItem(store, item) ==
    IF item.kind = "array"
    THEN IF store.feats[item.name].has THEN [store |-> store, err |-> "ValueError"]
         ELSE IF item.val.dtype = "object" THEN [store |-> store, err |-> "TypeError"]
         ELSE [store |-> [store EXCEPT !.feats[item.name] = item.val], err |-> ""]
    ELSE [store |-> [store EXCEPT !.metadata = item.val], err |-> ""]

\* The loop over rv.items(): it ends at the first item that raises, with the
\* items before it written.
RECURSIVE PutItems(_, _)
PutItems(store, items) ==
    IF items = <<>> THEN [store |-> store, err |-> ""]
    ELSE LET r == PutItem(store, Head(items)) IN
         IF r.err # "" THEN r ELSE PutItems(r.store, Tail(items))

\* file_to_db(files[i], extract_func, mode) on the file holding store: what
\* the file holds afterwards and what the call raised.  extract_func runs
\* before the file is opened; the info table, with the source's directory
\* and name, is written last.  Nothing is undone when a line raises.
Written(i, store, mode, rv) ==
    IF rv.raises THEN [store |-> store, err |-> "ExtractionError"]
    ELSE LET o == OpenStore(store, mode) IN
         IF o.err # "" THEN o
         ELSE LET w == PutItems([o.store EXCEPT !.owner = i], rv.items) IN
              IF w.err # "" THEN w
              ELSE [store |-> [w.store EXCEPT !.directory = split_path(files[i])[1],
                                              !.name = split_path(files[i])[2]],
                    err |-> ""]

\* ------------------------------------------------- make_db_for_each_file
\* Pool._map_async, no chunksize given: the tasks are cut into chunks of
\* ceil(len(iterable) / (len(pool) * 4)) consecutive tasks.
chunksize == IF N = 0 THEN 0 ELSE (N + 4 * n_cores - 1) \div (4 * n_cores)

ChunkOf(i) == (i - 1) \div chunksize

\* The tasks that come after task i in its chunk.
Chunkmates(i) == { j \in (i + 1)..N : ChunkOf(j) = ChunkOf(i) }

\* The pool hands the chunks out in list order to n_cores workers, and a
\* worker runs the tasks of its chunk one after the other: the tasks in
\* flight are the first unfinished ones of the first n_cores unfinished chunks.
InFlight ==
    { i \in 1..N :
        /\ task[i] = "pending"
        /\ \A j \in 1..(i - 1) : ChunkOf(j) = ChunkOf(i) => task[j] # "pending"
        /\ Cardinality({ ChunkOf(j) : j \in { h \in 1..(i - 1) :
                            task[h] = "pending" /\ ChunkOf(h) # ChunkOf(i) } }) < n_cores }

\* What the pool task of the source at position i leaves and raises: mode
\* is the default "w".
TaskOutcome(i, rv) ==
    Written(i, fs[Resolve(tmp_db_of(files[i]))], "w",
            [raises |-> rv.raises, items |-> ItemsOf(rv)])

\* The store file_to_db writes for the source at position i.
StoreOf(i, rv) == TaskOutcome(i, rv).store

\* Mutation: the result is kept at the first free position, so the list is
\* in completion order.
SetResult_append(res, i, v) ==
    [res EXCEPT ![CHOOSE j \in 1..Len(res) :
                    res[j] = <<>> /\ \A h \in 1..(j - 1) : res[h] # <<>>] = v]

\* starmap keeps each task's return value at the task's own position.
SetResult(res, i, v) == [res EXCEPT ![i] = v]

\* One pool task: file_to_db(files[i], extract_func), extract_func returning
\* or raising rv.  extract_func runs before the store is opened.  A raise
\* ends the worker's chunk (starmapstar): the tasks after it in the chunk
\* are never run.
file_to_db(i, rv) ==
    /\ At("build")
    /\ i \in InFlight
    /\ rvs' = [rvs EXCEPT ![i] = rv]
    /\ overtook' = (overtook \/ \E j \in 1..(i - 1) : task[j] = "pending")
    /\ fs' = [fs EXCEPT ![Resolve(tmp_db_of(files[i]))] = StoreOf(i, rv)]
    /\ opens' = IF rv.raises THEN opens
                ELSE Opened(opens, tmp_db_of(files[i]), "file_to_db")
    /\ IF TaskOutcome(i, rv).err # ""
       THEN /\ task' = [j \in 1..N |-> IF j = i THEN "failed"
                                       ELSE IF j \in Chunkmates(i) THEN "skipped"
                                       ELSE task[j]]
            /\ UNCHANGED results
       ELSE /\ task' = [task EXCEPT ![i] = "done"]
            /\ results' = SetResult(results, i, tmp_db_of(files[i]))
    /\ UNCHANGED <<call, files, n_cores, remove_sources, pc, err, tmp_dbs, infos,
                   metadata, definitions, target, args, k>>

\* starmap returns once every chunk has finished: the list of results, or
\* the exception of a failed task.
AllFinished == \A i \in 1..N : task[i] # "pending"

\* Mutation: the call returns as soon as one task has finished.
starmap_ready_first == \E i \in 1..N : task[i] # "pending"

\* p.starmap(...) blocks until the pool has a result for every task.
starmap_ready == AllFinished

\* tmp_dbs = p.starmap(file_to_db, args)
starmap_return ==
    /\ At("build")
    /\ starmap_ready
    /\ IF \E i \in 1..N : task[i] = "failed"
       THEN Raise("ExtractionError") /\ UNCHANGED tmp_dbs
       ELSE pc' = "pool_exit" /\ tmp_dbs' = results /\ UNCHANGED err
    /\ UNCHANGED <<call, opens, files, n_cores, remove_sources, task, results, overtook,
                   fs, infos, metadata, definitions, target, args, k, rvs>>

\* Leaving the with block ends the pool; make_db_for_each_file returns
\* tmp_dbs and make_root_db calls aggregate_dbs with its remove_sources.
pool_exit ==
    /\ At("pool_exit")
    /\ pc' = "collect_infos"
    /\ n_cores' = 0
    /\ task' = <<>>
    /\ results' = <<>>
    /\ overtook' = FALSE
    /\ remove_sources' \in BOOLEAN
    /\ UNCHANGED <<call, opens, files, err, tmp_dbs, fs, infos, metadata, definitions,
                   target, args, k, rvs>>

\* ----------------------------------------------------------- aggregate_dbs
\* h5py.File(path, "r"): the store at the file the path names, if any.
StoreAt(path) ==
    IF Resolve(path) \in StorePaths THEN fs[Resolve(path)] ELSE NoStore

\* Database(db).info: the info table of a per-source store
Database_info(db) ==
    LET store == StoreAt(db) IN
    [directory |-> store.directory, name |-> store.name, feats |-> store.feats]

\* Database(db).metadata: the metadata table of a per-source store
Database_metadata(db) == StoreAt(db).metadata

\* The position of the first store of dbs that is not there, Len(dbs) + 1
\* when all are.
FirstMissing(dbs) ==
    IF \E i \in 1..Len(dbs) : ~StoreAt(dbs[i]).present
    THEN CHOOSE i \in 1..Len(dbs) :
             /\ ~StoreAt(dbs[i]).present
             /\ \A j \in 1..(i - 1) : StoreAt(dbs[j]).present
    ELSE Len(dbs) + 1

\* collect_infos: one row per store, in the order of tmp_dbs; pd.concat
\* raises on an empty list, opening a missing store raises.
collect_infos ==
    /\ At("collect_infos")
    /\ IF tmp_dbs = <<>> THEN Raise("ValueError") /\ UNCHANGED infos
       ELSE IF \E i \in 1..Len(tmp_dbs) : ~StoreAt(tmp_dbs[i]).present
       THEN Raise("OSError") /\ UNCHANGED infos
       ELSE /\ infos' = [i \in 1..Len(tmp_dbs) |-> Database_info(tmp_dbs[i])]
            /\ pc' = "collect_metadatas"
            /\ UNCHANGED err
    /\ opens' = OpenedEach(opens, tmp_dbs, FirstMissing(tmp_dbs) - 1, "collect_infos")
    /\ UNCHANGED <<call, files, n_cores, remove_sources, task, results, overtook,
                   tmp_dbs, fs, metadata, definitions, target, args, k, rvs>>

\* Mutation: the offset is the last_stop of the previous store's own rows,
\* not of its shifted rows.
RECURSIVE MetadataRows_local(_, _)
MetadataRows_local(dbs, n) ==
    IF n = 0 THEN <<>>
    ELSE LET offset == IF n = 1 THEN 0 ELSE last_stop(Database_metadata(dbs[n - 1]))
             scr    == Database_metadata(dbs[n])
         IN MetadataRows_local(dbs, n - 1) \o
            [j \in 1..Len(scr) |->
                [name |-> Join(ButLast(Split(dbs[n], ".")), "."),
                 start |-> scr[j].start + offset,
                 stop |-> scr[j].stop + offset,
                 duration |-> scr[j].duration]]

\* collect_metadatas' loop over dbs[1..n]: each store's rows shifted by the
\* offset, which is then set to the shifted frame's last_stop.
RECURSIVE MetadataRows(_, _)
MetadataRows(dbs, n) ==
    IF n = 0 THEN <<>>
    ELSE LET before == MetadataRows(dbs, n - 1)
             offset == IF before = <<>> THEN 0 ELSE last_stop(before)
             scr    == Database_metadata(dbs[n])
         IN before \o
            [j \in 1..Len(scr) |->
                [name |-> Join(ButLast(Split(dbs[n], ".")), "."),
                 start |-> scr[j].start + offset,
                 stop |-> scr[j].stop + offset,
                 duration |-> scr[j].duration]]

collect_metadatas ==
    /\ At("collect_metadatas")
    /\ metadata' = MetadataRows(tmp_dbs, Len(tmp_dbs))
    /\ opens' = OpenedEach(opens, tmp_dbs, Len(tmp_dbs), "collect_metadatas")
    /\ pc' = "plan"
    /\ UNCHANGED <<call, files, n_cores, remove_sources, err, task, results, overtook,
                   tmp_dbs, fs, infos, definitions, target, args, k, rvs>>

\* ------------------------------------------------ ds_definitions_from_infos
\* The feature columns of the concatenated info frame.
FeaturesOf(inf) == { x \in Features : \E i \in 1..Len(inf) : inf[i].feats[x].has }

\* The store paths rebuilt from the directory and name columns.
PathsOf(inf) == [i \in 1..Len(inf) |-> path_of_info(inf[i].directory, inf[i].name)]

\* tb.loc[(f, "shape"), :].values; a source without the feature has NaN
ShapesOf(inf, x) == [i \in 1..Len(inf) |-> <<inf[i].feats[x].len>> \o inf[i].feats[x].dims]

\* Mutation: every source is given the first source's leading size.
DurationsOf_first(inf, x) == [i \in 1..Len(inf) |-> ShapesOf(inf, x)[1][1]]

\* [s[0] for s in shapes]
DurationsOf(inf, x) == [i \in 1..Len(inf) |-> ShapesOf(inf, x)[i][1]]

\* Mutation: the trailing dimensions are not compared.
PlanError_noassert(inf, x) ==
    IF Cardinality({ inf[i].feats[x].dtype : i \in 1..Len(inf) }) # 1
    THEN "ValueError"
    ELSE ""

\* Mutation: the rows of the sources without the feature are dropped
\* before the dtypes are counted.
PlanError_dropna(inf, x) ==
    IF Cardinality({ inf[i].feats[x].dtype : i \in { j \in 1..Len(inf) : inf[j].feats[x].has } }) # 1
    THEN "ValueError"
    ELSE IF \E i \in 2..Len(inf) : Tail(ShapesOf(inf, x)[i]) # Tail(ShapesOf(inf, x)[1])
    THEN "AssertionError"
    ELSE ""

\* What the loop body raises for feature x: .unique().item() wants one
\* dtype over all rows (NaN counts as one more value), the assert wants
\* every shape[1:] equal to the first.
PlanError(inf, x) ==
    IF Cardinality({ inf[i].feats[x].dtype : i \in 1..Len(inf) }) # 1
    THEN "ValueError"
    ELSE IF \E i \in 2..Len(inf) : Tail(ShapesOf(inf, x)[i]) # Tail(ShapesOf(inf, x)[1])
    THEN "AssertionError"
    ELSE ""

\* The definition of feature x: shape (layout.last_stop, *dims), dtype and
\* the layout with the paths as its index.
DefinitionOf(inf, x) ==
    LET layout == from_duration(DurationsOf(inf, x))
        dims   == Tail(ShapesOf(inf, x)[1])
    IN [shape |-> <<last_stop(layout)>> \o dims,
        dtype |-> inf[1].feats[x].dtype,
        layout |-> [i \in 1..Len(layout) |->
                       [index |-> PathsOf(inf)[i], start |-> layout[i].start,
                        stop |-> layout[i].stop, duration |-> layout[i].duration]]]

ds_definitions_from_infos ==
    /\ At("plan")
    /\ IF \E x \in FeaturesOf(infos) : PlanError(infos, x) # ""
       THEN /\ \E x \in FeaturesOf(infos) :
                  PlanError(infos, x) # "" /\ Raise(PlanError(infos, x))
            /\ UNCHANGED definitions
       ELSE /\ definitions' = [x \in FeaturesOf(infos) |-> DefinitionOf(infos, x)]
            /\ pc' = "create"
            /\ UNCHANGED err
    /\ UNCHANGED <<call, opens, files, n_cores, remove_sources, task, results, overtook,
                   tmp_dbs, fs, infos, metadata, target, args, k, rvs>>

\* ------------------------------------------------ create_datasets_from_defs
\* h5py.File(target, mode) with mode "w": a new, empty aggregate store.
create_open ==
    /\ At("create")
    /\ target' = Handles([NoTarget EXCEPT !.exists = TRUE, !.before = target.ds],
                          <<"open">>)
    /\ pc' = "create_loop"
    /\ UNCHANGED <<call, opens, files, n_cores, remove_sources, err, task, results, overtook,
                   tmp_dbs, fs, infos, metadata, definitions, args, k, rvs>>

\* layout.reset_index(drop=False) and rename(columns={"index": "name"}):
\* the rows written to layouts/<name>
LayoutTable(layout) ==
    [i \in 1..Len(layout) |->
        [name |-> layout[i].index, start |-> layout[i].start,
         stop |-> layout[i].stop, duration |-> layout[i].duration]]

\* f.create_dataset(name, shape, dtype): shape[0] rows nobody wrote yet
NewDataset(params) ==
    [created |-> TRUE, shape |-> params.shape, dtype |-> params.dtype,
     rows |-> [r \in 1..params.shape[1] |-> Uninit]]

\* Mutation: the table is written while f is open.
TurnEvents_noclose == <<"open", "close">>

\* What one turn of the loop does with handles once the dataset is created:
\* f.close(), to_hdf(target, "layouts/" + name, "r+") opening and closing
\* its own, f = h5py.File(target, "r+").
TurnEvents == <<"close", "open", "close", "open">>

\* One turn of the loop over defs.items(), in the dict's order (that of a
\* set of names: any): the dataset is created and its layout persisted, or,
\* ok being FALSE, f.create_dataset raises because the file cannot take the
\* dataset (no space left on the device).
create_dataset(x, ok) ==
    /\ At("create_loop")
    /\ x \in DOMAIN definitions
    /\ ~target.ds[x].created
    /\ IF ok
       THEN /\ target' = Handles(
                    [target EXCEPT !.ds[x] = NewDataset(definitions[x]),
                                   !.layouts[x] = LayoutTable(definitions[x].layout),
                                   !.has_layout = @ \cup {x}],
                    TurnEvents)
            /\ UNCHANGED <<pc, err>>
       ELSE Raise("OSError") /\ UNCHANGED target
    /\ UNCHANGED <<call, opens, files, n_cores, remove_sources, task, results,
                   overtook, tmp_dbs, fs, infos, metadata, definitions, args, k, rvs>>

\* Mutation: the loop stops after the first dataset.
AllCreated_first == \E x \in DOMAIN definitions : target.ds[x].created

\* The loop over defs.items() is over: f.flush(), f.close() and
\* create_datasets_from_defs returns.
AllCreated == \A x \in DOMAIN definitions : target.ds[x].created

create_return ==
    /\ At("create_loop")
    /\ AllCreated
    /\ target' = Handles(target, <<"close">>)
    /\ pc' = "args"
    /\ UNCHANGED <<call, opens, files, n_cores, remove_sources, err, task, results, overtook,
                   tmp_dbs, fs, infos, metadata, definitions, args, k, rvs>>

\* ---------------------------------------------------- make_integration_args
\* Mutation: the rows come back last first.
ReadLayout_reversed(x) ==
    [i \in 1..Len(target.layouts[x]) |->
        [name |-> target.layouts[x][Len(target.layouts[x]) + 1 - i].name,
         start |-> target.layouts[x][Len(target.layouts[x]) + 1 - i].start,
         stop |-> target.layouts[x][Len(target.layouts[x]) + 1 - i].stop]]

\* Metadata(pd.read_hdf(target, "layouts/" + feature)): the persisted rows
ReadLayout(x) ==
    [i \in 1..Len(target.layouts[x]) |->
        [name |-> target.layouts[x][i].name, start |-> target.layouts[x][i].start,
         stop |-> target.layouts[x][i].stop]]

\* Mutation: every range starts at row 0.
ArgsOfFeature_fromzero(x) ==
    LET df == ReadLayout(x) IN
    [i \in 1..Len(df) |->
        [source |-> df[i].name, feature |-> x, lo |-> 0, hi |-> slices(df)[i][2]]]

\* Mutation: every segment is turned into two entries.
ArgsOfFeature_twice(x) ==
    LET df == ReadLayout(x) IN
    [i \in 1..(2 * Len(df)) |->
        [source |-> df[(i + 1) \div 2].name, feature |-> x,
         lo |-> slices(df)[(i + 1) \div 2][1], hi |-> slices(df)[(i + 1) \div 2][2]]]

\* Mutation: every pair is given the range of the first segment.
ArgsOfFeature_shared(x) ==
    LET df == ReadLayout(x) IN
    [i \in 1..Len(df) |->
        [source |-> df[i].name, feature |-> x,
         lo |-> slices(df)[1][1], hi |-> slices(df)[1][2]]]

\* (target, source, feature, indices) for source, indices in
\* zip(df.name, df.slices(time_axis=0))
ArgsOfFeature(x) ==
    LET df == ReadLayout(x) IN
    [i \in 1..Len(df) |->
        [source |-> df[i].name, feature |-> x,
         lo |-> slices(df)[i][1], hi |-> slices(df)[i][2]]]

\* Mutation: only the first name of the order is turned into arguments.
ArgsUpTo_first(n) ==
    IF FeatureOrder[1] \in target.has_layout THEN ArgsOfFeature(FeatureOrder[1]) ELSE <<>>

\* The loop over f["layouts"].keys(), for the first n names of the order.
RECURSIVE ArgsUpTo(_)
ArgsUpTo(n) ==
    IF n = 0 THEN <<>>
    ELSE ArgsUpTo(n - 1) \o
         (IF FeatureOrder[n] \in target.has_layout
          THEN ArgsOfFeature(FeatureOrder[n]) ELSE <<>>)

\* The nodes of the aggregate store the loop reads: every layouts/<name>.
LayoutsRead == { <<"layouts", x>> : x \in target.has_layout }

make_integration_args ==
    /\ At("args")
    /\ IF target.has_layout = {}
       THEN Raise("KeyError") /\ UNCHANGED <<args, k, target>>
       ELSE /\ args' = ArgsUpTo(Len(FeatureOrder))
            /\ target' = [target EXCEPT !.reads = @ \cup LayoutsRead,
                                        !.writes = [j \in 1..Len(args') |-> 0]]
            /\ k' = 1
            /\ pc' = "integrate"
            /\ UNCHANGED err
    /\ UNCHANGED <<call, opens, files, n_cores, remove_sources, task, results, overtook,
                   tmp_dbs, fs, infos, metadata, definitions, rvs>>

\* ----------------------------------------------------------------- integrate
\* Mutation: the write lands one row early.
WriteRows_early(rows, lo, hi, data) ==
    [r \in 1..Len(rows) |-> IF lo <= r /\ r < hi THEN data[r - lo + 1] ELSE rows[r]]

\* trgt[key][indices] = data: rows lo+1..hi (1-based) of the dataset, the
\* slice clipped to the rows the dataset has; data of one row is broadcast
\* over the selection.
WriteRows(rows, lo, hi, data) ==
    [r \in 1..Len(rows) |->
        IF lo < r /\ r <= hi
        THEN data[IF Len(data) = 1 THEN 1 ELSE r - lo]
        ELSE rows[r]]

\* The rows of the target dataset the slice lo:hi selects.
Selected(arg) ==
    { r \in 1..Len(target.ds[arg.feature].rows) : arg.lo < r /\ r <= arg.hi }

\* What integrate(*arg) raises: the source cannot be opened, it or the
\* target has no such dataset, or the data does not fit the selected rows
\* (an empty selection takes any data: nothing is written).
IntegrateError(arg) ==
    LET src == StoreAt(arg.source) IN
    IF ~src.present THEN "OSError"
    ELSE IF ~src.feats[arg.feature].has THEN "KeyError"
    ELSE IF ~target.ds[arg.feature].created THEN "KeyError"
    ELSE IF Selected(arg) = {} THEN ""
    ELSE IF Len(DataOf(src, arg.feature)) \notin {1, Cardinality(Selected(arg))}
    THEN "TypeError"
    ELSE ""

\* What integrate(*arg) does with handles on the target: the with block
\* opens it with "r+" and closes it, when the read of the source before it
\* has not raised.
IntegrateEvents(arg) ==
    IF StoreAt(arg.source).present /\ StoreAt(arg.source).feats[arg.feature].has
    THEN <<"open", "close">> ELSE <<>>

\* integrate(*args[j]); k counts the calls that returned.
integrate_pair(j) ==
    /\ At("integrate")
    /\ j \in 1..Len(args)
    /\ LET arg == args[j] IN
       IF IntegrateError(arg) # ""
       THEN /\ Raise(IntegrateError(arg))
            /\ target' = Handles(target, IntegrateEvents(arg))
            /\ UNCHANGED k
       ELSE /\ target' = Handles(
                    [target EXCEPT
                        !.ds[arg.feature].rows =
                            WriteRows(@, arg.lo, arg.hi,
                                      DataOf(StoreAt(arg.source), arg.feature)),
                        !.writes[j] = @ + 1],
                    IntegrateEvents(arg))
            /\ k' = k + 1
            /\ UNCHANGED <<pc, err>>
    /\ opens' = IF StoreAt(args[j].source).present
                THEN Opened(opens, args[j].source, "integrate") ELSE opens
    /\ UNCHANGED <<call, files, n_cores, remove_sources, task, results, overtook,
                   tmp_dbs, fs, infos, metadata, definitions, args, rvs>>

\* One turn of "for arg in args: integrate(*arg)".
integrate == k <= Len(args) /\ integrate_pair(k)

\* Mutation: the sources are removed after the first scatter write.
integrate_return_early ==
    /\ At("integrate")
    /\ k > 1
    /\ pc' = "remove"
    /\ k' = 1
    /\ UNCHANGED <<call, opens, files, n_cores, remove_sources, err, task, results, overtook,
                   tmp_dbs, fs, infos, metadata, definitions, target, args, rvs>>

\* The loop over args is over: "if remove_sources:" is next.
integrate_return ==
    /\ At("integrate")
    /\ k > Len(args)
    /\ pc' = "remove"
    /\ k' = 1
    /\ UNCHANGED <<call, opens, files, n_cores, remove_sources, err, task, results, overtook,
                   tmp_dbs, fs, infos, metadata, definitions, target, args, rvs>>

\* One turn of "for src in dbs: os.remove(src)".
os_remove ==
    /\ At("remove")
    /\ remove_sources
    /\ k <= Len(tmp_dbs)
    /\ IF ~StoreAt(tmp_dbs[k]).present
       THEN Raise("FileNotFoundError") /\ UNCHANGED <<fs, k, opens>>
       ELSE /\ fs' = [fs EXCEPT ![Resolve(tmp_dbs[k])] = NoStore]
            /\ opens' = Opened(opens, tmp_dbs[k], "os.remove")
            /\ k' = k + 1
            /\ UNCHANGED <<pc, err>>
    /\ UNCHANGED <<call, files, n_cores, remove_sources, task, results, overtook,
                   tmp_dbs, infos, metadata, definitions, target, args, rvs>>

\* infos.to_hdf(target, "info", "r+") and metadata.to_hdf(target, "metadata",
\* "r+"), each opening and closing the file.
write_tables ==
    /\ At("remove")
    /\ ~remove_sources \/ k > Len(tmp_dbs)
    /\ target' = Handles([target EXCEPT !.info = infos, !.metadata = metadata,
                                        !.finished = TRUE],
                          <<"open", "close", "open", "close">>)
    /\ pc' = "done"
    /\ UNCHANGED <<call, opens, files, n_cores, remove_sources, err, task, results, overtook,
                   tmp_dbs, fs, infos, metadata, definitions, args, k, rvs>>

\* ------------------------------------------------------------ make_root_db
Next ==
    \/ \E i \in 1..N, rv \in ExtractResults : file_to_db(i, rv)
    \/ starmap_return
    \/ pool_exit
    \/ collect_infos
    \/ collect_metadatas
    \/ ds_definitions_from_infos
    \/ create_open
    \/ \E x \in Features, ok \in BOOLEAN : create_dataset(x, ok)
    \/ create_return
    \/ make_integration_args
    \/ integrate
    \/ integrate_return
    \/ os_remove
    \/ write_tables

Spec == Init /\ [][Next]_vars

\* --------------------------------------------- make_db_for_each_file alone
\* make_db_for_each_file called on a walk of up to MaxPoolSources files.
InitPool ==
    /\ files \in PoolFileLists
    /\ n_cores \in 1..MaxCores
    /\ remove_sources = FALSE
    /\ pc = "build"
    /\ err = ""
    /\ task = [i \in 1..Len(files) |-> "pending"]
    /\ results = [i \in 1..Len(files) |-> <<>>]
    /\ overtook = FALSE
    /\ tmp_dbs = <<>>
    /\ fs = [p \in StorePaths |-> NoStore]
    /\ infos = <<>>
    /\ metadata = <<>>
    /\ definitions = [x \in {} |-> 0]
    /\ target = NoTarget
    /\ args = <<>>
    /\ k = 0
    /\ rvs = [i \in 1..Len(files) |-> NotRun]
    /\ call = NoCall
    /\ opens = NoOpens

NextPool ==
    \/ \E i \in 1..N, rv \in ExtractResults : file_to_db(i, rv)
    \/ starmap_return
    \/ pool_exit

SpecPool == InitPool /\ [][NextPool]_vars

\* ------------------------------------------- scatter writes in any order
\* The walks of one directory make_root_db is run on.
OneDirLists == { [i \in 1..n |-> PoolFile(i)] : n \in 0..MaxSources }

\* make_root_db with one worker on a walk of one directory.
InitOneDir ==
    /\ files \in OneDirLists
    /\ n_cores = 1
    /\ remove_sources = FALSE
    /\ pc = "build"
    /\ err = ""
    /\ task = [i \in 1..Len(files) |-> "pending"]
    /\ results = [i \in 1..Len(files) |-> <<>>]
    /\ overtook = FALSE
    /\ tmp_dbs = <<>>
    /\ fs = [p \in StorePaths |-> NoStore]
    /\ infos = <<>>
    /\ metadata = <<>>
    /\ definitions = [x \in {} |-> 0]
    /\ target = NoTarget
    /\ args = <<>>
    /\ k = 0
    /\ rvs = [i \in 1..Len(files) |-> NotRun]
    /\ call = NoCall
    /\ opens = NoOpens

\* The pipeline with the calls integrate(*arg) made once each, in any order
\* (a pool of scatter workers) instead of in the order of args.
NextAnyOrder ==
    \/ \E i \in 1..N, rv \in ExtractResults : file_to_db(i, rv)
    \/ starmap_return
    \/ pool_exit
    \/ collect_infos
    \/ collect_metadatas
    \/ ds_definitions_from_infos
    \/ create_open
    \/ \E x \in Features, ok \in BOOLEAN : create_dataset(x, ok)
    \/ create_return
    \/ make_integration_args
    \/ \E j \in 1..Len(args) : target.writes[j] = 0 /\ integrate_pair(j)
    \/ integrate_return
    \/ os_remove
    \/ write_tables

SpecAnyOrder == InitOneDir /\ [][NextAnyOrder]_vars

\* ----------------------------------------------- file_to_db called directly
\* The feature values of a direct call: "f" of any leading size or of a
\* dtype h5py cannot store, "g", and the "metadata" table.
CallItems ==
    { Item("f", "array", Dense(l, <<8>>, "float32")) : l \in 1..MaxLen }
    \cup { Item("f", "array", Dense(1, <<>>, "object")),
           Item("g", "array", Dense(MaxLen, <<>>, "int64")) }
    \cup { Item("metadata", "table", from_duration(<<l>>)) : l \in 1..MaxLen }

\* The dicts extract_func can return: no two items of one name, any order.
CallDicts ==
    UNION { { q \in [1..n -> CallItems] :
                \A a, b \in 1..n : a # b => q[a].name # q[b].name } : n \in 0..3 }

CallResults ==
    { [raises |-> TRUE, items |-> <<>>] }
    \cup { [raises |-> FALSE, items |-> q] : q \in CallDicts }

\* A script that calls file_to_db on one file, up to MaxCalls times, going
\* on after a call that raised.
InitCall ==
    /\ files \in { <<p>> : p \in SourcePaths }
    /\ n_cores = 0
    /\ remove_sources = FALSE
    /\ pc = "file_to_db"
    /\ err = ""
    /\ task = <<>>
    /\ results = <<>>
    /\ overtook = FALSE
    /\ tmp_dbs = <<>>
    /\ fs = [p \in StorePaths |-> NoStore]
    /\ infos = <<>>
    /\ metadata = <<>>
    /\ definitions = [x \in {} |-> 0]
    /\ target = NoTarget
    /\ args = <<>>
    /\ k = 0
    /\ rvs = [i \in 1..Len(files) |-> NotRun]
    /\ call = NoCall
    /\ opens = NoOpens

\* file_to_db(files[1], extract_func, mode), extract_func returning or
\* raising rv.
call_file_to_db(mode, rv) ==
    /\ pc = "file_to_db"
    /\ call.count < MaxCalls
    /\ LET path == Resolve(tmp_db_of(files[1]))
           out  == Written(1, fs[path], mode, rv)
       IN /\ fs' = [fs EXCEPT ![path] = out.store]
          /\ call' = [count |-> call.count + 1, mode |-> mode, rv |-> rv,
                      prior |-> fs[path], err |-> out.err]
          /\ opens' = IF rv.raises \/ OpenStore(fs[path], mode).err # "" THEN opens
                      ELSE Opened(opens, path, "file_to_db")
    /\ UNCHANGED <<files, n_cores, remove_sources, pc, err, task, results,
                   overtook, tmp_dbs, infos, metadata, definitions, target,
                   args, k, rvs>>

NextCall == \E mode \in {"w", "r+"}, rv \in CallResults : call_file_to_db(mode, rv)

SpecCall == InitCall /\ [][NextCall]_vars

\* ------------------------------------ make_integration_args called directly
\* How the table at layouts/<name> can differ from the table that was
\* written, the file having been changed since: not at all, the rows after
\* the first moved one row up (a gap) or one row down (an overlap), every
\* row moved one row up (the first start is not 0).
Damages == {"none", "gap", "overlap", "shifted"}

ShiftOf(d, i) ==
    IF d = "gap" /\ i > 1 THEN 1
    ELSE IF d = "overlap" /\ i > 1 THEN -1
    ELSE IF d = "shifted" THEN 1
    ELSE 0

Damaged(table, d) ==
    [i \in 1..Len(table) |->
        [table[i] EXCEPT !.start = @ + ShiftOf(d, i), !.stop = @ + ShiftOf(d, i)]]

\* What extract_func returned for the sources of an aggregate that was
\* allocated: "f" of a leading size of at least one row, with or without "g".
AllocatedResults ==
    { rv \in ExtractResults :
        /\ ~rv.raises
        /\ rv.feats["f"].len > 0
        /\ rv.feats["f"].dims = <<8>> }

\* aggregate_dbs is at "args = make_integration_args(target)": the stores
\* of one directory's sources are written, the target is allocated as
\* planned, and its layout tables are read from a file that may have been
\* changed since create_datasets_from_defs wrote them.
InitReload ==
    /\ files \in (OneDirLists \ {<<>>})
    /\ n_cores = 1
    /\ remove_sources = FALSE
    /\ pc = "args"
    /\ err = ""
    /\ task = [i \in 1..Len(files) |-> "done"]
    /\ tmp_dbs = [i \in 1..Len(files) |-> tmp_db_of(files[i])]
    /\ results = tmp_dbs
    /\ overtook = FALSE
    /\ rvs \in { q \in [1..Len(files) -> AllocatedResults] :
                   \A i \in 1..Len(files) : q[i].feats["g"].has = q[1].feats["g"].has }
    /\ fs = [p \in StorePaths |->
               IF \E i \in 1..Len(files) : p = Resolve(tmp_dbs[i])
               THEN LET i == CHOOSE i \in 1..Len(files) : p = Resolve(tmp_dbs[i])
                    IN Written(i, NoStore, "w",
                               [raises |-> FALSE, items |-> ItemsOf(rvs[i])]).store
               ELSE NoStore]
    /\ infos = [i \in 1..Len(tmp_dbs) |-> Database_info(tmp_dbs[i])]
    /\ metadata = MetadataRows(tmp_dbs, Len(tmp_dbs))
    /\ definitions = [x \in FeaturesOf(infos) |-> DefinitionOf(infos, x)]
    /\ \E d \in [DOMAIN definitions -> Damages] :
           target = [NoTarget EXCEPT
               !.exists = TRUE,
               !.ds = [x \in Features |->
                          IF x \in DOMAIN definitions
                          THEN NewDataset(definitions[x]) ELSE NoDataset],
               !.layouts = [x \in Features |->
                          IF x \in DOMAIN definitions
                          THEN Damaged(LayoutTable(definitions[x].layout), d[x])
                          ELSE <<>>],
               !.has_layout = DOMAIN definitions,
               !.peak = 1]
    /\ args = <<>>
    /\ k = 0
    /\ call = NoCall
    /\ opens = OpenedEach(OpenedEach(OpenedEach(NoOpens,
                   tmp_dbs, Len(tmp_dbs), "file_to_db"),
                   tmp_dbs, Len(tmp_dbs), "collect_infos"),
                   tmp_dbs, Len(tmp_dbs), "collect_metadatas")

NextReload ==
    \/ make_integration_args
    \/ integrate
    \/ integrate_return
    \/ write_tables

SpecReload == InitReload /\ [][NextReload]_vars

\* ------------------------------------------------------------------ claims
\* The leading size source i's extraction gave feature x.
SizeOf(i, x) == rvs[i].feats[x].len

SizesOf(x) == [i \in 1..N |-> SizeOf(i, x)]

\* The features the sources were extracted with.
Extracted == { x \in Features : \E i \in 1..N : rvs[i].feats[x].has }

Done == pc = "done" /\ err = ""

\* C1: when aggregate_dbs has completed, every feature's aggregate dataset
\* has as many rows as the sources' datasets together, and the rows
\* [start_i, stop_i) of source i, start_i being the sizes before i summed,
\* hold source i's own rows in their order.
C1_AggregateHoldsSources ==
    Done =>
        \A x \in Extracted :
            /\ target.ds[x].created
            /\ target.ds[x].shape[1] = SumTo(SizesOf(x), N)
            /\ Len(target.ds[x].rows) = SumTo(SizesOf(x), N)
            /\ \A i \in 1..N : \A r \in 1..SizeOf(i, x) :
                   target.ds[x].rows[SumTo(SizesOf(x), i - 1) + r] = Row(i, x, r)

\* Every source's rows are in its slot of every feature's dataset.
SlotsFilled ==
    \A x \in Extracted : \A i \in 1..N : \A r \in 1..SizeOf(i, x) :
        target.ds[x].rows[SumTo(SizesOf(x), i - 1) + r] = Row(i, x, r)

\* Three sources of sizes 1, 2, 1 aggregated: 4 rows, slots [0,1), [1,3), [3,4).
C1_Witness ==
    /\ Done
    /\ N = 3
    /\ SizesOf("f") = <<1, 2, 1>>
    /\ Len(target.ds["f"].rows) = 4
    /\ target.ds["g"].created

\* C2: what make_db_for_each_file returns is, position by position, the
\* store of the source at that position, whatever the order the tasks
\* finished in.
C2_ResultsInSourceOrder ==
    pc # "build" =>
        /\ Len(tmp_dbs) = N
        /\ \A i \in 1..N : tmp_dbs[i] = tmp_db_of(files[i])

\* Three sources, two workers, a later task finished first, and the list
\* was returned.
C2_Witness ==
    /\ At("pool_exit")
    /\ N = 3
    /\ n_cores = 2
    /\ overtook
    /\ \A i \in 1..N : StoreAt(tmp_dbs[i]).owner = i

\* C3: the layout planned for a feature starts at 0, each segment stops
\* where the next starts, its last stop is the sum of the sources' leading
\* sizes, and the planned shape is (last_stop, *shared trailing dims).
C3_PlannedLayoutContiguous ==
    \A x \in DOMAIN definitions :
        LET lay == definitions[x].layout IN
        /\ Len(lay) = N
        /\ N >= 1
        /\ lay[1].start = 0
        /\ \A i \in 1..(N - 1) : lay[i].stop = lay[i + 1].start
        /\ last_stop(lay) = SumTo(SizesOf(x), N)
        /\ \A i \in 1..N :
               definitions[x].shape = <<last_stop(lay)>> \o rvs[i].feats[x].dims

\* A plan for three sources of sizes 2, 1, 2 and for two features.
C3_Witness ==
    /\ At("create")
    /\ N = 3
    /\ SizesOf("f") = <<2, 1, 2>>
    /\ DOMAIN definitions = {"f", "g"}
    /\ definitions["f"].shape = <<5, 8>>

ArgsFor(x) == { j \in 1..Len(args) : args[j].feature = x }

\* C4: the row ranges handed to the scatter writes of one feature are
\* pairwise disjoint and together are exactly [0, last_stop).
C4_SlicesPartition ==
    args # <<>> =>
        \A x \in DOMAIN definitions :
            /\ \A i, j \in ArgsFor(x) :
                   i # j =>
                     { r \in args[i].lo..(args[i].hi - 1) :
                         args[j].lo <= r /\ r < args[j].hi } = {}
            /\ UNION { args[j].lo..(args[j].hi - 1) : j \in ArgsFor(x) }
                 = 0..(last_stop(definitions[x].layout) - 1)

\* Three non-empty ranges for "f" are about to be written.
C4_Witness ==
    /\ At("integrate")
    /\ N = 3
    /\ Cardinality(ArgsFor("f")) = 3
    /\ \A j \in ArgsFor("f") : args[j].lo < args[j].hi

\* The j-th scatter write of feature x, counting from 1.
RECURSIVE NthArgFor(_, _, _)
NthArgFor(x, i, from) ==
    IF args[from].feature = x
    THEN (IF i = 1 THEN from ELSE NthArgFor(x, i - 1, from + 1))
    ELSE NthArgFor(x, i, from + 1)

\* C5: for every feature, the i-th segment of the persisted layout names
\* the i-th store returned by the build stage, and the scatter write of that
\* segment reads from that same store.
C5_PositionalMapping ==
    \A x \in target.has_layout :
        /\ Len(target.layouts[x]) = Len(tmp_dbs)
        /\ \A i \in 1..Len(tmp_dbs) :
               /\ Resolve(target.layouts[x][i].name) = Resolve(tmp_dbs[i])
               /\ args # <<>> =>
                     Resolve(args[NthArgFor(x, i, 1)].source) = Resolve(tmp_dbs[i])

\* Stages of aggregate_dbs from the first scatter write on.
ScatterStarted == (pc = "integrate" /\ k > 1) \/ pc \in {"remove", "done"}

AllocatedAsPlanned ==
    \A x \in DOMAIN definitions :
        /\ target.ds[x].created
        /\ target.ds[x].shape = definitions[x].shape
        /\ Len(target.ds[x].rows) = definitions[x].shape[1]

\* C6: a step that makes a scatter write starts with every planned dataset
\* created at its planned shape, and once a scatter write has happened no
\* dataset is created or changes shape.
C6_AllocationBeforeScatter ==
    [][ /\ (At("integrate") /\ k' # k) =>
             (AllocatedAsPlanned /\ DOMAIN definitions = Extracted)
        /\ ScatterStarted =>
             \A x \in Features :
                /\ target'.ds[x].created = target.ds[x].created
                /\ target'.ds[x].shape = target.ds[x].shape
                /\ Len(target'.ds[x].rows) = Len(target.ds[x].rows) ]_vars

\* Scatter writes under way with two datasets allocated for two sources.
C6_Witness ==
    /\ At("integrate")
    /\ k = 3
    /\ N = 2
    /\ target.ds["f"].created /\ target.ds["g"].created
    /\ target.ds["g"].rows[1] = Uninit

\* Every row of every planned dataset holds a source's row.
AllScattered ==
    \A x \in DOMAIN definitions :
        \A r \in 1..Len(target.ds[x].rows) : target.ds[x].rows[r] # Uninit

\* C7: a per-source store disappears only in the removal loop, with
\* remove_sources set and every scatter write of every feature done; a run
\* that a scatter write ended has deleted no store.
C7_RemoveAfterScatter ==
    [][ /\ (\E p \in StorePaths : fs[p].present /\ ~fs'[p].present) =>
             /\ remove_sources
             /\ At("remove")
             /\ AllocatedAsPlanned /\ AllScattered
             /\ SlotsFilled
        /\ (pc' = "integrate" /\ err' # "") =>
             \A i \in 1..N : fs'[Resolve(tmp_db_of(files[i]))].present ]_vars

\* Both stores of a two-source, two-feature run are gone after the scatter.
C7_Witness ==
    /\ At("remove")
    /\ remove_sources
    /\ N = 2
    /\ k = 3
    /\ DOMAIN definitions = {"f", "g"}
    /\ \A i \in 1..N : ~fs[Resolve(tmp_dbs[i])].present

\* extract_func has returned or raised for the source at position i.
HasRun(i) == rvs[i] # NotRun

\* C8: the build stage is left, and layout planning, allocation and scatter
\* writes happen, only when the pool task of every source has terminated.
C8_BuildCompletesFirst ==
    [][ (\/ pc = "build" /\ pc' # "build"
         \/ infos' # infos
         \/ definitions' # definitions
         \/ target' # target) =>
            /\ \A i \in 1..N : HasRun(i)
            /\ \A i \in DOMAIN task : task[i] # "pending" ]_vars

\* Planning is reached for three sources after an out-of-order build.
C8_Witness ==
    /\ At("pool_exit")
    /\ N = 3
    /\ overtook
    /\ \A i \in 1..N : task[i] = "done"

\* Two sources were extracted with different trailing dimensions of one
\* feature.
DimsMismatch ==
    \E x \in Features : \E i, j \in 1..N :
        /\ rvs[i].feats[x].has /\ rvs[j].feats[x].has
        /\ rvs[i].feats[x].dims # rvs[j].feats[x].dims

\* A feature was extracted from some sources and not from others.
PartialCoverage ==
    \E x \in Features : \E i, j \in 1..N :
        /\ ~rvs[i].raises /\ ~rvs[j].raises
        /\ HasRun(i) /\ HasRun(j)
        /\ rvs[i].feats[x].has /\ ~rvs[j].feats[x].has

NoDatasetAllocated ==
    /\ ~target.exists
    /\ \A x \in Features : ~target.ds[x].created

PlanStages == {"build", "pool_exit", "collect_infos", "collect_metadatas", "plan"}

\* C9: with two sources that disagree on a feature's trailing dimensions,
\* the run never gets past layout planning, planning ends it with an
\* error, and the aggregate store holds no dataset.
C9_ShapeMismatchFails ==
    DimsMismatch =>
        /\ pc \in PlanStages
        /\ NoDatasetAllocated
        /\ (pc = "plan" /\ err # "") => err \in {"AssertionError", "ValueError"}
        /\ (pc = "plan" /\ err # "" /\ ~PartialCoverage) => err = "AssertionError"

\* Shapes (2, 8) and (1, 16): planning raised on the assert.
C9_Witness ==
    /\ pc = "plan"
    /\ err = "AssertionError"
    /\ N = 2
    /\ rvs[1].feats["f"].len = 2 /\ rvs[1].feats["f"].dims = <<8>>
    /\ rvs[2].feats["f"].len = 1 /\ rvs[2].feats["f"].dims = <<16>>
    /\ NoDatasetAllocated

\* C10: with a feature that some sources have and others lack, the run
\* never gets past layout planning, planning ends it with an error, and no
\* aggregate dataset is allocated.
C10_MissingFeatureFails ==
    PartialCoverage =>
        /\ pc \in PlanStages
        /\ NoDatasetAllocated
        /\ (pc = "plan" /\ err # "") => err \in {"AssertionError", "ValueError"}
        /\ (pc = "plan" /\ err # "" /\ ~DimsMismatch) => err = "ValueError"

\* "g" extracted from the first of two sources only: planning raised.
C10_Witness ==
    /\ pc = "plan"
    /\ err = "ValueError"
    /\ N = 2
    /\ rvs[1].feats["g"].has /\ ~rvs[2].feats["g"].has
    /\ rvs[1].feats["f"].dims = rvs[2].feats["f"].dims
    /\ NoDatasetAllocated

\* The store file_to_db was to write for the source at position i.
OwnStore(i) == StoreAt(tmp_db_of(files[i]))

\* A task of the pool has raised.
SomeFailed == \E i \in 1..Len(task) : task[i] = "failed"

\* C11: when starmap has every chunk's result and a source's task has
\* failed, every other source's task has run to completion, and the store
\* of every source whose extraction returned is there.
C11_FailureIsolated ==
    (pc = "build" /\ AllFinished /\ SomeFailed) =>
        \A j \in 1..N :
            /\ HasRun(j)
            /\ ~rvs[j].raises => (OwnStore(j).present /\ OwnStore(j).owner = j)

\* make_root_db has returned or raised.
Ended == err # "" \/ pc = "done"

\* Exactly one source's extraction raised, and the others returned features
\* that agree with each other.
OneFailedRestAgree ==
    /\ N >= 2
    /\ \A i \in 1..N : HasRun(i)
    /\ Cardinality({ i \in 1..N : rvs[i].raises }) = 1
    /\ ~DimsMismatch /\ ~PartialCoverage
    /\ \A i \in 1..N : Len(Split(files[i], "/")) > 1

\* C12: a run in which exactly one of the N sources fails extraction ends
\* with the aggregate built from the other N - 1 sources, every feature's
\* persisted layout having N - 1 segments, and the failed source was
\* extracted once.
C12_LenientBuildsFromRest ==
    (Ended /\ OneFailedRestAgree) =>
        /\ target.finished
        /\ \A x \in Extracted :
               x \in target.has_layout /\ Len(target.layouts[x]) = N - 1

\* The stores there are.
StoresPresent == { p \in StorePaths : fs[p].present }

\* C13: a call of file_to_db that returns leaves one store file for its
\* source, and a call that raises, in extract_func or in a write after it,
\* leaves no store file where there was none before the call.
C13_FailedSourceLeavesNoStore ==
    call.count > 0 =>
        /\ call.err = "" => StoresPresent = { Resolve(tmp_db_of(files[1])) }
        /\ (call.err # "" /\ ~call.prior.present) => StoresPresent = {}

\* The name of the item is the name of something the store holds.
InStore(store, item) ==
    IF item.kind = "array" THEN store.feats[item.name].has
    ELSE store.metadata # <<>>

\* What the store holds under the item's name.
Held(store, item) ==
    IF item.kind = "array" THEN store.feats[item.name] ELSE store.metadata

\* The items of the last call whose names were in the store before it.
Collisions ==
    { j \in 1..Len(call.rv.items) : InStore(call.prior, call.rv.items[j]) }

\* C14: a call of file_to_db with mode "r+" on an existing store, whose
\* extraction result has a feature name the store holds already, raises,
\* and what the store holds under that name is what it held before.
C14_DuplicateFeatureFails ==
    (call.count > 0 /\ call.mode = "r+" /\ call.prior.present /\ Collisions # {}) =>
        /\ call.err # ""
        /\ \A j \in Collisions :
               Held(OwnStore(1), call.rv.items[j]) = Held(call.prior, call.rv.items[j])

\* The rows of feature x's dataset after integrate(*arg) for the first n
\* entries of args, in the order of args, on the dataset as allocated.
RECURSIVE SeqRows(_, _)
SeqRows(x, n) ==
    IF n = 0 THEN NewDataset(definitions[x]).rows
    ELSE IF args[n].feature = x
    THEN WriteRows(SeqRows(x, n - 1), args[n].lo, args[n].hi,
                   DataOf(StoreAt(args[n].source), x))
    ELSE SeqRows(x, n - 1)

\* The entries of args whose write was made and whose range has row r of x.
WrittenOver(x, r) ==
    { j \in ArgsFor(x) : target.writes[j] > 0 /\ args[j].lo < r /\ r <= args[j].hi }

\* C15: no two scatter writes of one dataset have a row in common, and
\* with the writes made in any order, each once, every row a write has
\* covered holds what the loop in the order of args leaves there, every
\* other row is untouched, and once all are made the datasets are those the
\* loop in the order of args produces.
C15_ScatterOrderIndependent ==
    pc = "integrate" =>
        /\ \A i, j \in 1..Len(args) :
               (i # j /\ args[i].feature = args[j].feature) =>
                   ~\E r \in (args[i].lo + 1)..args[i].hi : args[j].lo < r /\ r <= args[j].hi
        /\ \A x \in DOMAIN definitions :
               /\ \A r \in 1..Len(target.ds[x].rows) :
                      target.ds[x].rows[r] =
                          IF WrittenOver(x, r) # {} THEN SeqRows(x, Len(args))[r] ELSE Uninit
               /\ (\A j \in ArgsFor(x) : target.writes[j] = 1) =>
                      target.ds[x].rows = SeqRows(x, Len(args))

\* Of three sources with rows, the third's "f" was written before the
\* first's, and all of "g" before any of "f" but that one.
C15_Witness ==
    /\ At("integrate")
    /\ N = 3
    /\ \A i \in 1..N : SizeOf(i, "f") > 0
    /\ Len(args) = 6
    /\ target.writes = <<0, 0, 1, 1, 1, 1>>

\* --------------------------------------------------- make_root_db run twice
\* The target was opened with mode "w" while it held datasets: the run is
\* the second one on that file.
SecondRun == \E x \in Features : target.before[x].created

\* make_root_db has returned and is called again with the same arguments,
\* the sources unchanged and the first run's aggregate store still there.
run_again ==
    /\ Done
    /\ ~SecondRun
    /\ pc' = "build"
    /\ n_cores' = 1
    /\ task' = [i \in 1..N |-> "pending"]
    /\ results' = [i \in 1..N |-> <<>>]
    /\ overtook' = FALSE
    /\ tmp_dbs' = <<>>
    /\ infos' = <<>>
    /\ metadata' = <<>>
    /\ definitions' = [x \in {} |-> 0]
    /\ args' = <<>>
    /\ k' = 0
    /\ opens' = NoOpens
    /\ UNCHANGED <<call, files, remove_sources, err, fs, target, rvs>>

\* The pipeline and its second run; extract_func is deterministic: what it
\* did for a source once, it does again.
NextTwice ==
    \/ \E i \in 1..N, rv \in ExtractResults :
           (HasRun(i) => rv = rvs[i]) /\ file_to_db(i, rv)
    \/ starmap_return
    \/ pool_exit
    \/ collect_infos
    \/ collect_metadatas
    \/ ds_definitions_from_infos
    \/ create_open
    \/ \E x \in Features, ok \in BOOLEAN : create_dataset(x, ok)
    \/ create_return
    \/ make_integration_args
    \/ integrate
    \/ integrate_return
    \/ os_remove
    \/ write_tables
    \/ run_again

SpecTwice == InitOneDir /\ [][NextTwice]_vars

\* C16: when make_root_db has returned, the aggregate store holds the
\* planned datasets and no other, every row of them was written by the run,
\* and after a second run on the same sources every dataset is equal to
\* the one the first run left.
C16_RerunSameAggregate ==
    Done =>
        /\ AllScattered
        /\ \A x \in Features : target.ds[x].created <=> x \in DOMAIN definitions
        /\ SecondRun => \A x \in Features : target.ds[x] = target.before[x]

\* A second run over two sources with rows has returned.
C16_Witness ==
    /\ Done
    /\ SecondRun
    /\ N = 2
    /\ \A i \in 1..N : SizeOf(i, "f") > 0
    /\ target.before["g"].created
    /\ Len(target.ds["f"].rows) = SumTo(SizesOf("f"), N)

\* The segments of a planned layout: the index labels with their bounds.
SegmentsOf(layout) ==
    [i \in 1..Len(layout) |->
        [name |-> layout[i].index, start |-> layout[i].start, stop |-> layout[i].stop]]

\* C17: the layout make_integration_args reads back for a feature is the
\* planned layout create_datasets_from_defs persisted: the same names with
\* the same start and stop, in the same order, and the scatter arguments
\* of the feature follow that order.
C17_LayoutRoundTrip ==
    \A x \in target.has_layout :
        /\ x \in DOMAIN definitions
        /\ ReadLayout(x) = SegmentsOf(definitions[x].layout)
        /\ args # <<>> =>
               \A i \in 1..Len(definitions[x].layout) :
                   LET arg == args[NthArgFor(x, i, 1)]
                       seg == definitions[x].layout[i]
                   IN arg.source = seg.index /\ arg.lo = seg.start /\ arg.hi = seg.stop

\* The layouts of two features over three sources were persisted and read
\* back, the sources' names not in alphabetical order.
C17_Witness ==
    /\ At("integrate")
    /\ N = 3
    /\ target.has_layout = {"f", "g"}
    /\ files[1] = <<"/", "d", "/", "b", ".", "wav">>
    /\ files[2] = <<"/", "d", "/", "a", ".", "wav">>
    /\ ReadLayout("f")[3].stop = SumTo(SizesOf("f"), N)
    /\ SizeOf(1, "f") > 0

\* The aggregate store exists from create_datasets_from_defs' h5py.File on,
\* and was not opened with mode "w" over datasets of this build.
CreatedOnce ==
    /\ target.exists <=> pc \notin (PlanStages \cup {"create"})
    /\ ~SecondRun

\* No two entries of args are of one (feature, source) pair, the entries
\* before position k of the loop have had one scatter write and the others
\* none, and when the loop is over every entry has had one.
WrittenOnce ==
    /\ \A i, j \in 1..Len(args) :
           i # j => <<args[i].feature, args[i].source>> # <<args[j].feature, args[j].source>>
    /\ Len(target.writes) = Len(args)
    /\ pc = "integrate" =>
           \A j \in 1..Len(args) : target.writes[j] = (IF j < k THEN 1 ELSE 0)
    /\ pc \in {"remove", "done"} => \A j \in 1..Len(args) : target.writes[j] = 1

\* C18 as stated: the aggregate store is created once, every (feature,
\* source) pair's range is written exactly once, and nothing is ever read
\* from the aggregate store during the build.
C18_CreatedWrittenOnceNeverRead ==
    /\ CreatedOnce
    /\ WrittenOnce
    /\ target.reads = {}

\* C18: the aggregate store is created once, every (feature, source)
\* pair's range is written exactly once, and the only nodes read from the
\* aggregate store during the build are the persisted layouts, which
\* make_integration_args reads once allocation is over; no dataset is read.
C18_CreatedWrittenOnceLayoutsRead ==
    /\ CreatedOnce
    /\ WrittenOnce
    /\ target.reads \subseteq { <<"layouts", x>> : x \in target.has_layout }
    /\ target.reads # {} => (pc \in {"integrate", "remove", "done"} /\ AllCreated)
    /\ pc \in {"integrate", "remove", "done"} =>
           target.reads = { <<"layouts", x>> : x \in DOMAIN definitions }

\* A build of two features over two sources is over: four ranges written
\* once each, two layouts read back.
C18_Witness ==
    /\ Done
    /\ N = 2
    /\ target.writes = <<1, 1, 1, 1>>
    /\ target.reads = { <<"layouts", "f">>, <<"layouts", "g">> }
    /\ \A i \in 1..N : SizeOf(i, "f") > 0

\* Some planned datasets exist in the aggregate store and some do not.
PartlyAllocated ==
    /\ target.exists
    /\ \E x \in DOMAIN definitions : target.ds[x].created
    /\ \E x \in DOMAIN definitions : ~target.ds[x].created

\* C19: a run that layout planning or allocation has ended with an error
\* leaves no aggregate store with only part of the planned datasets.
C19_NoPartialAllocation ==
    (err # "" /\ pc \in {"plan", "create", "create_loop"}) => ~PartlyAllocated

\* The rows of args[j]'s range hold the rows of its source.
RangeHolds(j) ==
    \A r \in (args[j].lo + 1)..args[j].hi :
        target.ds[args[j].feature].rows[r] =
            DataOf(StoreAt(args[j].source), args[j].feature)[r - args[j].lo]

\* C20: when a scatter write has failed, the scatter write of every other
\* pair has been attempted, and those that can succeed have put the
\* source's rows in their range.
C20_ScatterFailureIsolated ==
    (pc = "integrate" /\ err # "") =>
        \A j \in 1..Len(args) :
            (j # k /\ IntegrateError(args[j]) = "") =>
                (target.writes[j] = 1 /\ RangeHolds(j))

\* ------------------------------------------------------------- C21..C25
\* Every segment of a table of segments is a non-empty range.
NonEmptySegments(rows) == \A i \in 1..Len(rows) : rows[i].start < rows[i].stop

\* C21: every segment of every planned layout and of every persisted layout
\* has start < stop; a source whose feature has leading size 0 yields no
\* zero-width segment.
C21_SegmentsNonEmpty ==
    /\ \A x \in DOMAIN definitions : NonEmptySegments(definitions[x].layout)
    /\ \A x \in target.has_layout : NonEmptySegments(target.layouts[x])

\* A table of segments starts at row 0 and each segment starts where the
\* one before it stops: no gap, no overlap.
Contiguous(rows) ==
    rows # <<>> =>
        /\ rows[1].start = 0
        /\ \A i \in 1..(Len(rows) - 1) : rows[i].stop = rows[i + 1].start

\* A layout table of the aggregate store violates the invariant.
BrokenLayout == \E x \in target.has_layout : ~Contiguous(target.layouts[x])

\* C22: when a layout table of the aggregate store violates contiguity or
\* non-overlap, the run does not go past the reload: make_integration_args
\* ends it with an error, and no scatter write is made.
C22_BrokenLayoutIsFatal ==
    BrokenLayout =>
        /\ pc = "args"
        /\ args = <<>>
        /\ \A j \in 1..Len(target.writes) : target.writes[j] = 0

\* The steps a per-source store goes through, in order: file_to_db creates
\* and writes it, the scatter stage reads it, os.remove deletes it.
Lifecycle == <<"file_to_db", "integrate", "os.remove">>

IsPrefix(a, b) == Len(a) <= Len(b) /\ \A i \in 1..Len(a) : a[i] = b[i]

\* C23: over one run every per-source store is created and written once (by
\* file_to_db), then read once, by the scatter stage, then possibly deleted,
\* and no other step opens it.
C23_StoreLifecycle == \A p \in StorePaths : IsPrefix(opens[p], Lifecycle)

\* The metadata table of the store at position i of tmp_dbs, as the store
\* holds it, and the last_stop values of the stores' own tables.
OwnRows(i) == Database_metadata(tmp_dbs[i])

OwnStops == [i \in 1..Len(tmp_dbs) |-> last_stop(OwnRows(i))]

OwnCounts == [i \in 1..Len(tmp_dbs) |-> Len(OwnRows(i))]

\* collect_metadatas has returned and the stores it read are still there.
Collected ==
    /\ metadata # <<>>
    /\ \A i \in 1..Len(tmp_dbs) : StoreAt(tmp_dbs[i]).present

\* C24: in the table of collect_metadatas the rows of the source at
\* position i are its own rows shifted by the sum of the last_stop values
\* of the sources before it: they lie between that sum and the sum up to i,
\* so the ranges of successive sources do not overlap, and the table's
\* last_stop is the sum of all the sources' last_stop values.
C24_MetadataOffsets ==
    Collected =>
        /\ Len(metadata) = SumTo(OwnCounts, Len(tmp_dbs))
        /\ \A i \in 1..Len(tmp_dbs) : \A j \in 1..OwnCounts[i] :
               LET row == metadata[SumTo(OwnCounts, i - 1) + j] IN
               /\ row.start = OwnRows(i)[j].start + SumTo(OwnStops, i - 1)
               /\ row.stop = OwnRows(i)[j].stop + SumTo(OwnStops, i - 1)
               /\ SumTo(OwnStops, i - 1) <= row.start
               /\ row.start <= row.stop
               /\ row.stop <= SumTo(OwnStops, i)
        /\ last_stop(metadata) = SumTo(OwnStops, Len(tmp_dbs))

\* The tables of three sources of at least one row each were collected.
C24_Witness ==
    /\ Collected
    /\ Len(tmp_dbs) = 3
    /\ \A i \in 1..3 : OwnStops[i] > 0
    /\ metadata[3].start = OwnStops[1] + OwnStops[2]
    /\ last_stop(metadata) >= 3

\* C25: never more than one writable handle is open on the aggregate store;
\* during the loop of create_datasets_from_defs the function's own handle is
\* the one open between turns (it was closed for the time the layout table
\* was written), and none is open once the function has returned, between
\* two calls of integrate and after the last.
C25_SingleWriter ==
    /\ target.peak <= 1
    /\ target.open = (IF pc = "create_loop" THEN 1 ELSE 0)

\* A build of two features over two sources is over: the target was opened
\* for allocation, for two layout tables and for four scatter writes.
C25_Witness ==
    /\ Done
    /\ N = 2
    /\ DOMAIN definitions = Features
    /\ target.writes = <<1, 1, 1, 1>>
    /\ target.peak = 1
    /\ target.open = 0
====
